---- MODULE Spec2Model ----
(***************************************************************************)
(* Model of backend/main.py of the personal finance dashboard: the         *)
(* holdings ledger (POST /holding, DELETE /holding/{symbol},               *)
(* POST /holding/{symbol}/sell), the Mongo collections it works on and the *)
(* price cache it consults.                                                *)
(*                                                                         *)
(* Every endpoint answers the caller first and does its work in a          *)
(* background task (background_tasks.add_task); the tasks of different     *)
(* requests run in the server's thread pool, so their database calls       *)
(* interleave.  One action of the model is one database call of one task   *)
(* (with the local computation around it).                                 *)
(*                                                                         *)
(* Python floats are modelled as exact rationals [n, d]; quantities in the *)
(* requests are integers.  An Optional value is a set: {} is None and {x}  *)
(* is the value x.                                                         *)
(***************************************************************************)
EXTENDS Integers, Sequences, FiniteSets, TLC

\* ------------------------------------------------------------------ bounds

\* Requests accepted in one behaviour.
MaxReq == 3
\* Largest quantity a request carries.
MaxQty == 2
\* Clock jumps in one behaviour.
MaxTicks == 1
\* short steps of the clock (SHORT_AGE seconds each) within one long period
MaxShortTicks == 1
\* requests accepted in the price-cache specification
MaxCacheReq == 2
\* requests made in the specification of the portfolio view
MaxViewReq == 3

\* ------------------------------------------------------- program constants

\* max_age_sec of the warm-up in add_holding (and of get_portfolio's read).
LONG_AGE == 3600
\* max_age_sec of the sell-price lookup in process_sale.
SHORT_AGE == 300
\* await asyncio.sleep(3600) between two sweeps of the refresher
SWEEP_PERIOD == 3600

\* ------------------------------------------------------------------ inputs

Owners == {"u1"}
\* users_col: the registered users
Users == Owners \cup {"u2"}
\* Symbols as the caller writes them; the handlers upper-case them.
RawSymbols == {"AAPL", "aapl"}
\* Holding.qty: float, unvalidated: negative, zero and positive quantities
BuyQtys == (-1)..MaxQty
\* SellRequest.qty: float (every quantity <= 0 takes the same path)
SellQtys == 0..MaxQty
BuyPrices == {100, 120}
\* SellRequest.price: Optional[float] = None
SellPrices == {{}, {120}}
\* the symbols held when the process starts, in the sweep specification
SweepSymbols == {"AAPL", "TSLA"}
\* the user_id values GET /portfolio is called with: a registered user, an
\* ObjectId of no user, and a string that is no ObjectId
Callers == Owners \cup {"u0", "bad"}

\* ------------------------------------------------------------- arithmetic

Abs(x) == IF x < 0 THEN -x ELSE x

RECURSIVE GCD(_, _)
GCD(a, b) == IF b = 0 THEN a ELSE GCD(b, a % b)

\* The rational n/d (d # 0) in lowest terms with a positive denominator.
Rat(n, d) ==
  LET g == GCD(Abs(n), Abs(d))
      s == IF d < 0 THEN -1 ELSE 1
  IN  [n |-> (s * n) \div g, d |-> (s * d) \div g]

\* float(i) of an integer i
Float(i) == [n |-> i, d |-> 1]

RAdd(a, b) == Rat(a.n * b.d + b.n * a.d, a.d * b.d)
RSub(a, b) == Rat(a.n * b.d - b.n * a.d, a.d * b.d)
RMul(a, b) == Rat(a.n * b.n, a.d * b.d)
\* a / b, b # 0 (Python raises ZeroDivisionError otherwise)
RDiv(a, b) == Rat(a.n * b.d, a.d * b.n)
RLess(a, b) == a.n * b.d < b.n * a.d
RLeq(a, b) == a.n * b.d <= b.n * a.d
Zero == Float(0)

\* str.upper() on the symbols of the model
Upper(s) == IF s = "aapl" THEN "AAPL" ELSE s

Symbols == {Upper(s) : s \in RawSymbols}

\* ------------------------------------------------------------------- state

VARIABLES
  holdings_col,   \* db["holdings"]: documents [id, symbol, user_id, qty, price]
  next_id,        \* the next _id Mongo hands out
  realized_col,   \* db["realized_gains"]: the documents in insertion order
  prices_col,     \* db["prices"]: documents [symbol, price, timestamp]
  now,            \* time.time(), in seconds since the process started
  reqs,           \* every request accepted so far, with its background task
  refresher,      \* the background refresher task and the sweep it is in
  io              \* what the latest step did outside the ledger: its price
                  \* lookups with the provider calls they made, and the body
                  \* of the response when the step is get_portfolio

vars == <<holdings_col, next_id, realized_col, prices_col, now, reqs,
          refresher, io>>

\* ------------------------------------------------------------- collections

The(S) == CHOOSE x \in S : TRUE

\* a find_one that filters on the symbol alone
find_holding_AnyUser(col, sym, user_id) == {h \in col : h.symbol = sym}

\* holdings_col.find_one({"symbol": sym, "user_id": user_id}); the unique
\* index on (symbol, user_id) leaves at most one match.
find_holding(col, sym, user_id) ==
  {h \in col : h.symbol = sym /\ h.user_id = user_id}

\* holdings_col.update_one({"_id": id}, {"$set": {"qty": ..., "price": ...}}):
\* a document that is gone by now matches nothing and nothing is written.
update_qty_price(col, id, qty, price) ==
  {IF h.id = id THEN [h EXCEPT !.qty = qty, !.price = price] ELSE h : h \in col}

\* holdings_col.update_one({"_id": id}, {"$set": {"qty": ...}})
update_qty(col, id, qty) ==
  {IF h.id = id THEN [h EXCEPT !.qty = qty] ELSE h : h \in col}

\* holdings_col.delete_one({"_id": id})
delete_by_id(col, id) == {h \in col : h.id # id}

\* prices_col.find_one({"symbol": symbol.upper()})
_read_price(col, symbol) == {d \in col : d.symbol = Upper(symbol)}

\* prices_col.update_one({"symbol": ...}, {"$set": {price, timestamp}}, upsert=True)
_store_price(col, symbol, price, t) ==
  {d \in col : d.symbol # Upper(symbol)}
    \cup {[symbol |-> Upper(symbol), price |-> price, timestamp |-> t]}

\* ---------------------------------------------------------------- providers

\* What can happen to the FMP request: no API key is configured, a 403, a
\* 429 (raise_for_status raises), a connection error, a timeout, a body that
\* is not JSON, an empty list, or a list whose first element has a "price",
\* which the code takes as it comes.
FmpFailures ==
  {"no_key", "forbidden", "rate_limited", "network_error", "timeout",
   "bad_json", "empty"}
\* the failures that are exceptions raised inside the try block
FmpRaising == {"rate_limited", "network_error", "timeout", "bad_json"}
FmpEvent(event, price) == [event |-> event, price |-> price]
FmpEvents ==
  {FmpEvent(e, 0) : e \in FmpFailures}
    \cup {FmpEvent("price", p) : p \in {-5, 0, 110}}
\* the FMP events the ledger specification draws from
FmpAnswers == {FmpEvent("timeout", 0), FmpEvent("price", 110)}

\* What one source of yfinance yields: an exception, nothing, or a number.
YRaise == [exc |-> TRUE, val |-> {}]
YNone == [exc |-> FALSE, val |-> {}]
YVal(p) == [exc |-> FALSE, val |-> {p}]
\* The four sources _yahoo_quote goes through in turn.
YahooEvent(fast, info, hist, scrape) ==
  [fast |-> fast, info |-> info, hist |-> hist, scrape |-> scrape]
YahooEvents ==
  {YahooEvent(YVal(130), YNone, YNone, YNone),
   YahooEvent(YVal(0), YVal(130), YNone, YNone),
   YahooEvent(YRaise, YVal(130), YNone, YNone),
   YahooEvent(YNone, YRaise, YVal(130), YNone),
   YahooEvent(YNone, YNone, YVal(130), YRaise),
   YahooEvent(YNone, YNone, YNone, YRaise),
   YahooEvent(YNone, YNone, YNone, YVal(130)),
   YahooEvent(YNone, YNone, YNone, YNone)}
\* the yfinance events the ledger specification draws from
YahooAnswers ==
  {YahooEvent(YNone, YNone, YNone, YNone), YahooEvent(YVal(0), YNone, YNone, YNone)}

\* What a quote function hands its caller: a return value (an Optional), or
\* an exception that escapes it.
Returned(ret) == [ret |-> ret, raised |-> FALSE]
Escaped == [ret |-> {}, raised |-> TRUE]

\* Handled that lets everything but an HTTP error status through
Handled_HTTPErrorOnly(exc) == exc = "rate_limited"

\* except Exception: every exception of the request, the decoding and the
\* conversions is an Exception.
Handled(exc) == exc \in FmpRaising \cup {"yahoo_error"}

_fmp_quote(answer) ==
  IF answer.event = "no_key" THEN Returned({})
  ELSE IF answer.event \in FmpRaising
    THEN (IF Handled(answer.event) THEN Returned({}) ELSE Escaped)
  ELSE IF answer.event = "price" THEN Returned({Float(answer.price)})
  ELSE Returned({})

\* The body of _yahoo_quote's outer try: fast_info (its own try swallows an
\* exception), then info, history and the scraped page, each only while price
\* is None; exc is an exception the outer except has to deal with.
yahoo_price(answer) ==
  LET fast == IF answer.fast.exc THEN {} ELSE answer.fast.val
  IN  IF fast # {} THEN [exc |-> FALSE, val |-> fast]
      ELSE IF answer.info.exc \/ answer.info.val # {} THEN answer.info
      ELSE IF answer.hist.exc \/ answer.hist.val # {} THEN answer.hist
      ELSE answer.scrape

\* return float(price) if price else None; except Exception: return None
_yahoo_quote(answer) ==
  LET p == yahoo_price(answer)
  IN  IF p.exc
        THEN (IF Handled("yahoo_error") THEN Returned({}) ELSE Escaped)
        ELSE Returned({Float(x) : x \in {v \in p.val : v # 0}})

\* one call of a quote function, as the step's record keeps it
Quote(fn, q) == [fn |-> fn, ret |-> q.ret, raised |-> q.raised]

\* fetch_live_price that asks Yahoo first and FMP only after it
fetch_live_price_YahooFirst(fmp, yahoo) ==
  LET f == _fmp_quote(fmp)
      y == _yahoo_quote(yahoo)
  IN  IF y.raised \/ y.ret # {}
        THEN [ret |-> y.ret, raised |-> y.raised,
              quotes |-> <<Quote("_yahoo_quote", y)>>]
        ELSE [ret |-> f.ret, raised |-> f.raised,
              quotes |-> <<Quote("_yahoo_quote", y), Quote("_fmp_quote", f)>>]

\* fetch_live_price: the value it returns (or the exception that escapes
\* it) and the quote functions it called, in order.
fetch_live_price(fmp, yahoo) ==
  LET f == _fmp_quote(fmp)
      y == _yahoo_quote(yahoo)
  IN  IF f.raised \/ f.ret # {}
        THEN [ret |-> f.ret, raised |-> f.raised,
              quotes |-> <<Quote("_fmp_quote", f)>>]
        ELSE [ret |-> y.ret, raised |-> y.raised,
              quotes |-> <<Quote("_fmp_quote", f), Quote("_yahoo_quote", y)>>]

\* no call of fetch_live_price
NotFetched == [ret |-> {}, raised |-> FALSE, quotes |-> <<>>]

\* IsFresh that finds every entry too old
IsFresh_Never(doc, t, max_age_sec) == FALSE

\* doc and (now - float(doc.get("timestamp", 0)) < max_age_sec)
IsFresh(doc, t, max_age_sec) == \E d \in doc : t - d.timestamp < max_age_sec

\* LastKnown that forgets the stored price
LastKnown_None(doc) == {}

\* float(doc["price"]) if doc and "price" in doc else None
LastKnown(doc) == {d.price : d \in doc}

\* get_cached_price that fetches whatever allow_fetch says
get_cached_price_AlwaysFetch(col, t, symbol, max_age_sec, allow_fetch, fmp, yahoo, stored) ==
  LET sym == Upper(symbol)
      doc == _read_price(col, sym)
      live == fetch_live_price(fmp, yahoo)
      out(ret, c, l) == [ret |-> ret, col |-> c, doc |-> doc, fetched |-> l.ret,
                         quotes |-> l.quotes, raised |-> l.raised]
  IN  IF IsFresh(doc, t, max_age_sec) THEN out(LastKnown(doc), col, NotFetched)
      ELSE IF live.raised THEN out({}, col, live)
      ELSE IF live.ret # {}
        THEN (IF stored
                THEN out(live.ret, _store_price(col, sym, The(live.ret), t), live)
                ELSE [out({}, col, live) EXCEPT !.raised = TRUE])
      ELSE out(LastKnown(doc), col, live)

\* get_cached_price run against the collection col at time t, the providers
\* answering fmp and yahoo if asked: the value returned (ret) or the
\* exception that escapes (raised), the collection it leaves (col), the
\* document it read (doc), what fetch_live_price returned (fetched) and the
\* quote functions called (quotes).  stored is whether the update_one of
\* _store_price, if it comes to it, succeeds or raises.
get_cached_price(col, t, symbol, max_age_sec, allow_fetch, fmp, yahoo, stored) ==
  LET sym == Upper(symbol)
      doc == _read_price(col, sym)
      live == IF allow_fetch THEN fetch_live_price(fmp, yahoo) ELSE NotFetched
      out(ret, c, l) == [ret |-> ret, col |-> c, doc |-> doc, fetched |-> l.ret,
                         quotes |-> l.quotes, raised |-> l.raised]
  IN  IF IsFresh(doc, t, max_age_sec) THEN out(LastKnown(doc), col, NotFetched)
      ELSE IF live.raised THEN out({}, col, live)
      ELSE IF live.ret # {}
        THEN (IF stored
                THEN out(live.ret, _store_price(col, sym, The(live.ret), t), live)
                ELSE [out({}, col, live) EXCEPT !.raised = TRUE])
      ELSE out(LastKnown(doc), col, live)

\* A price lookup as a step records it: the function called with its
\* arguments, and the outcome c.
Lookup(fn, symbol, max_age_sec, allow_fetch, c) ==
  [fn |-> fn, symbol |-> Upper(symbol), max_age_sec |-> max_age_sec,
   allow_fetch |-> allow_fetch, doc |-> c.doc, fetched |-> c.fetched,
   quotes |-> c.quotes, ret |-> c.ret, raised |-> c.raised]

\* io of a step: its price lookups and, for get_portfolio, the response
IO(lookups, response) == [cache |-> lookups, portfolio |-> response]
NoIO == IO({}, {})

\* ----------------------------------------------------------------- requests

InFlight(r) == r.pc # "done"

\* The JSON body an endpoint returns: its "status", and the symbol its
\* "message" names (the message is a fixed text around the symbol).
Response(status, symbol) == [status |-> status, symbol |-> Upper(symbol)]

\* A request as accepted: its payload, the response already sent to the
\* caller, and the state of its background task (pc, the document h it read,
\* the sell price it settled on, and how it ended).  Two fields only record
\* the moment of acceptance and are read by no action: overlaps (another
\* request for the same holding was still in flight) and present (the
\* holding existed).
NewRequest(kind, user_id, symbol, qty, price, pc, response) ==
  [kind |-> kind, user_id |-> user_id, symbol |-> Upper(symbol), qty |-> qty,
   price |-> price, pc |-> pc, response |-> response, result |-> "pending",
   h |-> {}, sell_price |-> {},
   overlaps |-> \E j \in 1..Len(reqs) :
                  /\ InFlight(reqs[j])
                  /\ reqs[j].user_id = user_id
                  /\ reqs[j].symbol = Upper(symbol),
   present |-> find_holding(holdings_col, Upper(symbol), user_id) # {}]

Finish(r, result) ==
  [r EXCEPT !.pc = "done", !.result = result, !.h = {}, !.sell_price = {}]

\* The refresher: on_startup before its warm pass ("starting"), inside
\* refresh_all_prices ("sweeping", for on_startup or for the background
\* task, with the symbols still to do), the background task created and
\* about to sweep ("idle"), or in its asyncio.sleep until wake ("sleeping").
Starting == [pc |-> "starting", phase |-> "startup", todo |-> <<>>, wake |-> 0]
Idle == [pc |-> "idle", phase |-> "background", todo |-> <<>>, wake |-> 0]
Sweeping(phase, symbols) ==
  [pc |-> "sweeping", phase |-> phase, todo |-> symbols, wake |-> 0]
\* await asyncio.sleep(3600) from time t
Sleeping(t) ==
  [pc |-> "sleeping", phase |-> "background", todo |-> <<>>,
   wake |-> t + SWEEP_PERIOD]

\* uvicorn serves requests once the startup handler has returned
Serving ==
  refresher.pc # "starting"
    /\ ~(refresher.pc = "sweeping" /\ refresher.phase = "startup")

TypeOK ==
  /\ next_id \in Nat
  /\ now \in Nat
  /\ \A h \in holdings_col :
       h.symbol \in Symbols \cup SweepSymbols /\ h.user_id \in Users
  /\ Len(reqs) <= MaxReq

\* The process has started on an empty database: the warm pass of on_startup
\* found no holdings and the background task is created.
Init ==
  /\ holdings_col = {}
  /\ next_id = 1
  /\ realized_col = <<>>
  /\ prices_col = {}
  /\ now = 0
  /\ reqs = <<>>
  /\ refresher = Idle
  /\ io = NoIO

\* time passes
Tick ==
  /\ now + LONG_AGE <= MaxTicks * LONG_AGE
  /\ now' = now + LONG_AGE
  /\ io' = NoIO
  /\ UNCHANGED <<holdings_col, next_id, realized_col, prices_col, reqs, refresher>>

\* ------------------------------------------------------------ POST /holding

\* add_holding: queue insert_or_update and answer.
add_holding(user_id, symbol, qty, price) ==
  /\ Serving
  /\ Len(reqs) < MaxReq
  /\ reqs' = Append(reqs, NewRequest("add", user_id, symbol, qty, {price},
                                     "warm", Response("success", symbol)))
  /\ io' = NoIO
  /\ UNCHANGED <<holdings_col, next_id, realized_col, prices_col, now, refresher>>

\* "Save Changes" of the frontend's Manage Holdings: the quantity and the
\* average cost typed for a holding of the portfolio are posted to /holding.
SaveChanges(user_id, symbol, new_qty, new_price) ==
  add_holding(user_id, symbol, new_qty, new_price)

\* insert_or_update, first call: warm the price cache for the symbol.
insert_or_update_warm(i, fmp, yahoo, stored) ==
  LET r == reqs[i]
      c == get_cached_price(prices_col, now, r.symbol, LONG_AGE, TRUE, fmp, yahoo,
                            stored)
  IN  /\ r.kind = "add" /\ r.pc = "warm"
      /\ prices_col' = c.col
      /\ reqs' = [reqs EXCEPT ![i] =
                    IF c.raised THEN Finish(r, "raised") ELSE [r EXCEPT !.pc = "find"]]
      /\ io' = IO({Lookup("get_cached_price", r.symbol, LONG_AGE, TRUE, c)}, {})
      /\ UNCHANGED <<holdings_col, next_id, realized_col, now, refresher>>

\* insert_or_update: existing = holdings_col.find_one(...)
insert_or_update_find(i) ==
  LET r == reqs[i]
  IN  /\ r.kind = "add" /\ r.pc = "find"
      /\ reqs' = [reqs EXCEPT ![i].pc = "write",
                              ![i].h = find_holding(holdings_col, r.symbol, r.user_id)]
      /\ io' = NoIO
      /\ UNCHANGED <<holdings_col, next_id, realized_col, prices_col, now, refresher>>

\* new_qty of insert_or_update
NewQty(existing, qty) == existing.qty + qty

\* NewPrice as the plain mean of the old and the new price
NewPrice_Unweighted(existing, qty, price) ==
  RDiv(RAdd(existing.price, Float(price)), Float(2))

\* new_price of insert_or_update: the quantity-weighted mean
NewPrice(existing, qty, price) ==
  RDiv(RAdd(RMul(existing.price, Float(existing.qty)),
            RMul(Float(price), Float(qty))),
       Float(NewQty(existing, qty)))

\* insert_or_update: the update_one of an existing holding, or the insert_one
\* of a new one, which the unique index refuses (DuplicateKeyError) when the
\* key has a document by now; new_qty = 0 raises ZeroDivisionError before
\* anything is written.
insert_or_update_write(i) ==
  LET r == reqs[i]
      price == The(r.price)
  IN  /\ r.kind = "add" /\ r.pc = "write"
      /\ IF r.h # {}
           THEN LET existing == The(r.h)
                IN  IF NewQty(existing, r.qty) = 0
                      THEN /\ reqs' = [reqs EXCEPT ![i] = Finish(r, "raised")]
                           /\ UNCHANGED <<holdings_col, next_id>>
                      ELSE /\ holdings_col' =
                                update_qty_price(holdings_col, existing.id,
                                                 NewQty(existing, r.qty),
                                                 NewPrice(existing, r.qty, price))
                           /\ reqs' = [reqs EXCEPT ![i] = Finish(r, "saved")]
                           /\ UNCHANGED next_id
           ELSE IF find_holding(holdings_col, r.symbol, r.user_id) # {}
                  THEN /\ reqs' = [reqs EXCEPT ![i] = Finish(r, "raised")]
                       /\ UNCHANGED <<holdings_col, next_id>>
                  ELSE /\ holdings_col' = holdings_col \cup
                            {[id |-> next_id, symbol |-> r.symbol,
                              user_id |-> r.user_id, qty |-> r.qty,
                              price |-> Float(price)]}
                       /\ next_id' = next_id + 1
                       /\ reqs' = [reqs EXCEPT ![i] = Finish(r, "saved")]
      /\ io' = NoIO
      /\ UNCHANGED <<realized_col, prices_col, now, refresher>>

\* -------------------------------------------------- DELETE /holding/{symbol}

\* delete_holding: queue perform_delete and answer.
delete_holding(user_id, symbol) ==
  /\ Serving
  /\ Len(reqs) < MaxReq
  /\ reqs' = Append(reqs, NewRequest("delete", user_id, symbol, 0, {},
                                     "delete", Response("queued", symbol)))
  /\ io' = NoIO
  /\ UNCHANGED <<holdings_col, next_id, realized_col, prices_col, now, refresher>>

\* delete_one that matches the symbol only
delete_one_BySymbol(col, sym, user_id) == {h \in col : h.symbol # sym}

\* holdings_col.delete_one({"symbol": sym, "user_id": ObjectId(user_id)})
delete_one(col, sym, user_id) ==
  {h \in col : ~(h.symbol = sym /\ h.user_id = user_id)}

\* perform_delete that deletes the realized gains of the holding with it
perform_delete_Cascade(i) ==
  LET r == reqs[i]
      found == find_holding(holdings_col, r.symbol, r.user_id)
      kept(x) == ~(x.symbol = r.symbol /\ x.user_id = r.user_id)
  IN  /\ r.kind = "delete" /\ r.pc = "delete"
      /\ holdings_col' = delete_one(holdings_col, r.symbol, r.user_id)
      /\ realized_col' = SelectSeq(realized_col, kept)
      /\ reqs' = [reqs EXCEPT ![i] =
                    Finish(r, IF found = {} THEN "not_found" ELSE "deleted")]
      /\ io' = NoIO
      /\ UNCHANGED <<next_id, prices_col, now, refresher>>

\* perform_delete: delete_one by (symbol, user_id); deleted_count 0 is logged.
perform_delete(i) ==
  LET r == reqs[i]
      found == find_holding(holdings_col, r.symbol, r.user_id)
  IN  /\ r.kind = "delete" /\ r.pc = "delete"
      /\ holdings_col' = delete_one(holdings_col, r.symbol, r.user_id)
      /\ reqs' = [reqs EXCEPT ![i] =
                    Finish(r, IF found = {} THEN "not_found" ELSE "deleted")]
      /\ io' = NoIO
      /\ UNCHANGED <<next_id, realized_col, prices_col, now, refresher>>

\* ----------------------------------------------- POST /holding/{symbol}/sell

\* sell_holding: queue process_sale and answer.
sell_holding(user_id, symbol, qty, price) ==
  /\ Serving
  /\ Len(reqs) < MaxReq
  /\ reqs' = Append(reqs, NewRequest("sell", user_id, symbol, qty, price,
                                     "find", Response("queued", symbol)))
  /\ io' = NoIO
  /\ UNCHANGED <<holdings_col, next_id, realized_col, prices_col, now, refresher>>

\* SaleCheck without the upper bound on the quantity
SaleCheck_NoUpperBound(h, qty_to_sell) ==
  IF h = {} THEN "not_found"
  ELSE IF qty_to_sell <= 0 THEN "invalid_quantity"
  ELSE "ok"

\* SaleCheck reporting a missing holding as an invalid quantity
SaleCheck_MissingAsInvalid(h, qty_to_sell) ==
  IF h = {} THEN "invalid_quantity"
  ELSE IF qty_to_sell <= 0 \/ qty_to_sell > The(h).qty THEN "invalid_quantity"
  ELSE "ok"

\* The two early returns of process_sale on the document h it found (an
\* Optional) and the quantity asked for.
SaleCheck(h, qty_to_sell) ==
  IF h = {} THEN "not_found"
  ELSE IF qty_to_sell <= 0 \/ qty_to_sell > The(h).qty THEN "invalid_quantity"
  ELSE "ok"

\* process_sale: h = find_one(...), the two early returns, and the explicit
\* sell price.
process_sale_find(i) ==
  LET r == reqs[i]
      h == find_holding(holdings_col, r.symbol, r.user_id)
  IN  /\ r.kind = "sell" /\ r.pc = "find"
      /\ reqs' = [reqs EXCEPT ![i] =
           IF SaleCheck(h, r.qty) # "ok" THEN Finish(r, SaleCheck(h, r.qty))
           ELSE IF r.price # {}
             THEN [r EXCEPT !.pc = "record", !.h = h,
                            !.sell_price = {Float(The(r.price))}]
           ELSE [r EXCEPT !.pc = "price", !.h = h]]
      /\ io' = NoIO
      /\ UNCHANGED <<holdings_col, next_id, realized_col, prices_col, now, refresher>>

\* x or y on an Optional[float] x: None and 0.0 are both falsy
OrElse(x, y) == IF x = {} \/ x = {Zero} THEN y ELSE The(x)

\* process_sale without an explicit price:
\* sell_price = get_cached_price(sym, max_age_sec=300, allow_fetch=True) or buy_price
process_sale_price(i, fmp, yahoo) ==
  LET r == reqs[i]
      c == get_cached_price(prices_col, now, r.symbol, SHORT_AGE, TRUE, fmp, yahoo,
                            TRUE)
  IN  /\ r.kind = "sell" /\ r.pc = "price"
      /\ prices_col' = c.col
      /\ reqs' = [reqs EXCEPT ![i] =
                    IF c.raised THEN Finish(r, "raised")
                    ELSE [r EXCEPT !.pc = "record",
                                   !.sell_price = {OrElse(c.ret, The(r.h).price)}]]
      /\ io' = IO({Lookup("get_cached_price", r.symbol, SHORT_AGE, TRUE, c)}, {})
      /\ UNCHANGED <<holdings_col, next_id, realized_col, now, refresher>>

\* Profit per share, the quantity forgotten
Profit_PerShare(sell_price, buy_price, qty_to_sell) ==
  RSub(sell_price, buy_price)

\* profit = (sell_price - buy_price) * qty_to_sell
Profit(sell_price, buy_price, qty_to_sell) ==
  RMul(RSub(sell_price, buy_price), Float(qty_to_sell))

\* the document process_sale inserts into realized_gains
SaleRecord(r) ==
  [symbol |-> r.symbol, qty |-> r.qty, buy_price |-> The(r.h).price,
   sell_price |-> The(r.sell_price),
   profit |-> Profit(The(r.sell_price), The(r.h).price, r.qty),
   user_id |-> r.user_id]

\* process_sale: realized_col.insert_one(...)
process_sale_record(i) ==
  LET r == reqs[i]
  IN  /\ r.kind = "sell" /\ r.pc = "record"
      /\ realized_col' = Append(realized_col, SaleRecord(r))
      /\ reqs' = [reqs EXCEPT ![i].pc = "settle"]
      /\ io' = NoIO
      /\ UNCHANGED <<holdings_col, next_id, prices_col, now, refresher>>

\* RemainingQty with the operands the wrong way round
RemainingQty_Swapped(h, qty_to_sell) == qty_to_sell - h.qty

\* new_qty of process_sale
RemainingQty(h, qty_to_sell) == h.qty - qty_to_sell

\* SoldOut that keeps a holding of quantity 0
SoldOut_Strict(new_qty) == new_qty < 0

\* if new_qty <= 0: delete the holding
SoldOut(new_qty) == new_qty <= 0

\* process_sale: delete the holding when nothing remains, else set its qty;
\* both by the _id read at the start.
process_sale_settle(i) ==
  LET r == reqs[i]
      h == The(r.h)
  IN  /\ r.kind = "sell" /\ r.pc = "settle"
      /\ holdings_col' =
           IF SoldOut(RemainingQty(h, r.qty))
             THEN delete_by_id(holdings_col, h.id)
             ELSE update_qty(holdings_col, h.id, RemainingQty(h, r.qty))
      /\ reqs' = [reqs EXCEPT ![i] = Finish(r, "sold")]
      /\ io' = NoIO
      /\ UNCHANGED <<next_id, realized_col, prices_col, now, refresher>>

\* ------------------------------------------------------------ GET /portfolio

\* ObjectId(user_id) raises on a string that is no ObjectId
IsObjectId(user_id) == user_id # "bad"

\* round(x, 2), ties to the even hundredth
Round2(x) ==
  LET n == x.n * 100
      fl == n \div x.d
      rem == n % x.d
      k == IF 2 * rem < x.d THEN fl
           ELSE IF 2 * rem > x.d THEN fl + 1
           ELSE IF fl % 2 = 0 THEN fl ELSE fl + 1
  IN  Rat(k, 100)

\* find_holdings that returns the holdings of every quantity
find_holdings_AnyQty(col, user_id) == {h \in col : h.user_id = user_id}

\* holdings_col.find({"user_id": oid, "qty": {"$gt": 0}})
find_holdings(col, user_id) == {h \in col : h.user_id = user_id /\ h.qty > 0}

\* lookup_prices that lets the lookups fetch
RECURSIVE lookup_prices_Fetching(_, _, _, _, _)
lookup_prices_Fetching(symbols, col, t, fmp, yahoo) ==
  IF symbols = {} THEN [col |-> col, lookups |-> {}]
  ELSE LET sym == CHOOSE x \in symbols : TRUE
           c == get_cached_price(col, t, sym, LONG_AGE, TRUE, fmp, yahoo, TRUE)
           rest == lookup_prices_Fetching(symbols \ {sym}, c.col, t, fmp, yahoo)
       IN  [col |-> rest.col,
            lookups |-> {Lookup("get_cached_price", sym, LONG_AGE, TRUE, c)}
                          \cup rest.lookups]

\* prices[sym] = get_cached_price(sym, max_age_sec=3600, allow_fetch=False)
\* for every symbol of the list: the lookups made and the collection left.
RECURSIVE lookup_prices(_, _, _, _, _)
lookup_prices(symbols, col, t, fmp, yahoo) ==
  IF symbols = {} THEN [col |-> col, lookups |-> {}]
  ELSE LET sym == CHOOSE x \in symbols : TRUE
           c == get_cached_price(col, t, sym, LONG_AGE, FALSE, fmp, yahoo, TRUE)
           rest == lookup_prices(symbols \ {sym}, c.col, t, fmp, yahoo)
       IN  [col |-> rest.col,
            lookups |-> {Lookup("get_cached_price", sym, LONG_AGE, FALSE, c)}
                          \cup rest.lookups]

\* Row without the rounding
Row_Unrounded(h, current_price) ==
  LET qty == Float(h.qty)
  IN  [symbol |-> h.symbol, qty |-> qty, avg_price |-> h.price,
       current_price |-> current_price,
       value |-> {RMul(p, qty) : p \in current_price},
       unrealized_profit |-> {RMul(RSub(p, h.price), qty) : p \in current_price},
       warning |-> IF current_price = {} THEN {"price_unavailable"} ELSE {}]

\* the row of the response for holding h, current_price being prices[symbol]
Row(h, current_price) ==
  LET qty == Float(h.qty)
      priced(p) == [symbol |-> h.symbol, qty |-> qty, avg_price |-> h.price,
                    current_price |-> {Round2(p)},
                    value |-> {Round2(RMul(p, qty))},
                    unrealized_profit |-> {Round2(RMul(RSub(p, h.price), qty))},
                    warning |-> {}]
  IN  IF current_price # {} THEN priced(The(current_price))
      ELSE [symbol |-> h.symbol, qty |-> qty, avg_price |-> h.price,
            current_price |-> {}, value |-> {}, unrealized_profit |-> {},
            warning |-> {"price_unavailable"}]

\* RealizedProfit over the documents of every user
RECURSIVE RealizedProfit_AllUsers(_, _)
RealizedProfit_AllUsers(sales, user_id) ==
  IF sales = <<>> THEN Zero
  ELSE RAdd(Head(sales).profit, RealizedProfit_AllUsers(Tail(sales), user_id))

\* sum(profit) over the realized_gains documents of user_id
RECURSIVE RealizedProfit(_, _)
RealizedProfit(sales, user_id) ==
  IF sales = <<>> THEN Zero
  ELSE RAdd(IF Head(sales).user_id = user_id THEN Head(sales).profit ELSE Zero,
            RealizedProfit(Tail(sales), user_id))

\* the response of get_portfolio: the HTTP status and, on 200, the body;
\* user_id is the query parameter of the request it answers
PortfolioResponse(user_id, status, rows, realized) ==
  [user_id |-> user_id, status |-> status, holdings |-> rows,
   realized_profit |-> realized]

\* get_portfolio: the whole handler; it queues no background task.
get_portfolio(user_id, fmp, yahoo) ==
  LET holdings == find_holdings(holdings_col, user_id)
      p == lookup_prices({h.symbol : h \in holdings}, prices_col, now, fmp, yahoo)
      price(sym) == UNION {l.ret : l \in {x \in p.lookups : x.symbol = sym}}
  IN  /\ Serving
      /\ IF ~IsObjectId(user_id)
           THEN /\ io' = IO({}, {PortfolioResponse(user_id, 400, {}, Zero)})
                /\ UNCHANGED prices_col
         ELSE IF user_id \notin Users
           THEN /\ io' = IO({}, {PortfolioResponse(user_id, 404, {}, Zero)})
                /\ UNCHANGED prices_col
         ELSE IF \E l \in p.lookups : l.raised
           THEN /\ io' = IO(p.lookups, {PortfolioResponse(user_id, 500, {}, Zero)})
                /\ prices_col' = p.col
         ELSE /\ io' = IO(p.lookups,
                          {PortfolioResponse(user_id, 200,
                             {Row(h, price(h.symbol)) : h \in holdings},
                             RealizedProfit(realized_col, user_id))})
              /\ prices_col' = p.col
      /\ UNCHANGED <<holdings_col, next_id, realized_col, now, reqs, refresher>>

\* ---------------------------------------------------------------- refresher

\* short steps of the clock
TickShort ==
  /\ (now % LONG_AGE) + SHORT_AGE <= MaxShortTicks * SHORT_AGE
  /\ now' = now + SHORT_AGE
  /\ io' = NoIO
  /\ UNCHANGED <<holdings_col, next_id, realized_col, prices_col, reqs, refresher>>

\* the orders in which distinct() may list the members of S
Listings(S) ==
  {q \in [1..Cardinality(S) -> S] :
     \A a, b \in 1..Cardinality(S) : q[a] = q[b] => a = b}

\* Where refresh_all_prices returns to, or where the except around it
\* leaves: on_startup goes on to create the background task, the background
\* task goes to sleep.
AfterSweep(phase, t) == IF phase = "startup" THEN Idle ELSE Sleeping(t)

\* the task is gone: what an exception nobody caught would leave
Stopped == [pc |-> "stopped", phase |-> "background", todo |-> <<>>, wake |-> 0]

\* an except around the sweep that lets the background task end
SweepRaised_TaskEnds(phase, t) == IF phase = "startup" THEN Idle ELSE Stopped

\* an except around the warm pass that lets on_startup fail
SweepRaised_StartupFails(phase, t) ==
  IF phase = "startup" THEN Stopped ELSE Sleeping(t)

\* refresh_all_prices raised: `except Exception` logs it, in on_startup
\* ("Startup refresh failed") and in refresher() ("Hourly refresh
\* failed"), and the caller goes on as after a sweep that returned.
SweepRaised(phase, t) == AfterSweep(phase, t)

\* a sweep that lists the symbol of every holding document, one per owner
\* of the symbol, where distinct() lists each symbol once
refresh_all_prices_begin_PerHolding(listed) ==
  LET phase == IF refresher.pc = "starting" THEN "startup" ELSE "background"
  IN  /\ \/ refresher.pc \in {"starting", "idle"}
         \/ refresher.pc = "sleeping" /\ now >= refresher.wake
      /\ \E docs \in Listings(holdings_col) :
           refresher' = IF ~listed THEN SweepRaised(phase, now)
                        ELSE IF docs = <<>> THEN AfterSweep(phase, now)
                        ELSE Sweeping(phase, [k \in 1..Len(docs) |-> docs[k].symbol])
      /\ io' = NoIO
      /\ UNCHANGED <<holdings_col, next_id, realized_col, prices_col, now, reqs>>

\* a sweep that may be entered while another one is still running: a
\* background task created before the warm pass, or sweeps not awaited
refresh_all_prices_begin_Anytime(listed) ==
  /\ refresher.pc # "stopped"
  /\ \E symbols \in Listings({h.symbol : h \in holdings_col}) :
       refresher' = IF ~listed THEN SweepRaised("background", now)
                    ELSE IF symbols = <<>> THEN AfterSweep("background", now)
                    ELSE Sweeping("background", symbols)
  /\ io' = NoIO
  /\ UNCHANGED <<holdings_col, next_id, realized_col, prices_col, now, reqs>>

\* refresh_all_prices is entered, by on_startup or by the background task,
\* and lists the held symbols; listed is whether
\* holdings_col.distinct("symbol") answers or raises, which the caller logs.
refresh_all_prices_begin(listed) ==
  LET phase == IF refresher.pc = "starting" THEN "startup" ELSE "background"
  IN  /\ \/ refresher.pc \in {"starting", "idle"}
         \/ refresher.pc = "sleeping" /\ now >= refresher.wake
      /\ \E symbols \in Listings({h.symbol : h \in holdings_col}) :
           refresher' = IF ~listed THEN SweepRaised(phase, now)
                        ELSE IF symbols = <<>> THEN AfterSweep(phase, now)
                        ELSE Sweeping(phase, symbols)
      /\ io' = NoIO
      /\ UNCHANGED <<holdings_col, next_id, realized_col, prices_col, now, reqs>>

\* refresh_symbol that leaves a symbol with a fresh cache entry alone
refresh_symbol_StaleOnly(col, t, sym, fmp, yahoo, stored) ==
  LET live == IF IsFresh(_read_price(col, sym), t, LONG_AGE) THEN NotFetched
              ELSE fetch_live_price(fmp, yahoo)
  IN  [live |-> live,
       col |-> IF ~live.raised /\ live.ret # {} /\ stored
                 THEN _store_price(col, sym, The(live.ret), t) ELSE col,
       raised |-> live.raised \/ (live.ret # {} /\ ~stored)]

\* The body of the for loop of refresh_all_prices for sym: fetch, and store
\* a price that came; stored is whether the update_one of _store_price
\* succeeds or raises.  live is what fetch_live_price did, col the
\* collection left, raised whether an exception leaves the loop.
refresh_symbol(col, t, sym, fmp, yahoo, stored) ==
  LET live == fetch_live_price(fmp, yahoo)
  IN  [live |-> live,
       col |-> IF ~live.raised /\ live.ret # {} /\ stored
                 THEN _store_price(col, sym, The(live.ret), t) ELSE col,
       raised |-> live.raised \/ (live.ret # {} /\ ~stored)]

\* refresh_all_prices: one turn of the for loop.  An exception ends
\* refresh_all_prices; its caller logs it and goes on.
refresh_all_prices_symbol(fmp, yahoo, stored) ==
  LET sym == Upper(Head(refresher.todo))
      b == refresh_symbol(prices_col, now, sym, fmp, yahoo, stored)
  IN  /\ refresher.pc = "sweeping"
      /\ prices_col' = b.col
      /\ refresher' = IF b.raised THEN SweepRaised(refresher.phase, now)
                        ELSE IF Tail(refresher.todo) = <<>>
                          THEN AfterSweep(refresher.phase, now)
                        ELSE [refresher EXCEPT !.todo = Tail(@)]
      /\ io' = IO({Lookup("fetch_live_price", sym, 0, TRUE,
                          [doc |-> {}, fetched |-> b.live.ret,
                           quotes |-> b.live.quotes, ret |-> b.live.ret,
                           raised |-> b.live.raised])}, {})
      /\ UNCHANGED <<holdings_col, next_id, realized_col, now, reqs>>

\* ----------------------------------------------------------- specification

Next ==
  \/ Tick
  \/ \E u \in Owners, s \in RawSymbols, q \in BuyQtys, p \in BuyPrices :
       add_holding(u, s, q, p)
  \/ \E u \in Owners, s \in RawSymbols : delete_holding(u, s)
  \/ \E u \in Owners, s \in RawSymbols, q \in SellQtys, p \in SellPrices :
       sell_holding(u, s, q, p)
  \/ \E i \in 1..Len(reqs), fmp \in FmpAnswers, yahoo \in YahooAnswers :
       insert_or_update_warm(i, fmp, yahoo, TRUE)
  \/ \E i \in 1..Len(reqs) : insert_or_update_find(i)
  \/ \E i \in 1..Len(reqs) : insert_or_update_write(i)
  \/ \E i \in 1..Len(reqs) : perform_delete(i)
  \/ \E i \in 1..Len(reqs) : process_sale_find(i)
  \/ \E i \in 1..Len(reqs), fmp \in FmpAnswers, yahoo \in YahooAnswers :
       process_sale_price(i, fmp, yahoo)
  \/ \E i \in 1..Len(reqs) : process_sale_record(i)
  \/ \E i \in 1..Len(reqs) : process_sale_settle(i)

Spec == Init /\ [][Next]_vars

\* The price cache under the handlers that use it: one symbol, acquisitions
\* of one share at 100, sales of one share, and the portfolio view.
NextCache ==
  \/ Tick
  \/ TickShort
  \/ /\ Len(reqs) < MaxCacheReq
     /\ \E u \in Owners, s \in RawSymbols : add_holding(u, s, 1, 100)
  \/ /\ Len(reqs) < MaxCacheReq
     /\ \E u \in Owners, s \in Symbols, p \in SellPrices : sell_holding(u, s, 1, p)
  \/ \E i \in 1..Len(reqs), fmp \in FmpEvents, yahoo \in YahooEvents :
       insert_or_update_warm(i, fmp, yahoo, TRUE)
  \/ \E i \in 1..Len(reqs) : insert_or_update_find(i)
  \/ \E i \in 1..Len(reqs) : insert_or_update_write(i)
  \/ \E i \in 1..Len(reqs) : process_sale_find(i)
  \/ \E i \in 1..Len(reqs), fmp \in FmpEvents, yahoo \in YahooEvents :
       process_sale_price(i, fmp, yahoo)
  \/ \E i \in 1..Len(reqs) : process_sale_record(i)
  \/ \E i \in 1..Len(reqs) : process_sale_settle(i)
  \/ \E u \in Callers, fmp \in FmpAnswers, yahoo \in YahooAnswers :
       get_portfolio(u, fmp, yahoo)

SpecCache == Init /\ [][NextCache]_vars

\* The refresher over a database that holds one share of each of two symbols
\* when the process starts (the collections outlive the process).
InitSweep ==
  /\ holdings_col = {[id |-> 1, symbol |-> "AAPL", user_id |-> "u1",
                      qty |-> 1, price |-> Float(100)],
                     [id |-> 2, symbol |-> "TSLA", user_id |-> "u1",
                      qty |-> 1, price |-> Float(100)]}
  /\ next_id = 3
  /\ realized_col = <<>>
  /\ prices_col = {}
  /\ now = 0
  /\ reqs = <<>>
  /\ refresher = Starting
  /\ io = NoIO

NextSweep ==
  \/ Tick
  \/ TickShort
  \/ \E listed \in BOOLEAN : refresh_all_prices_begin(listed)
  \/ \E fmp \in FmpEvents, yahoo \in YahooEvents, stored \in BOOLEAN :
       refresh_all_prices_symbol(fmp, yahoo, stored)
  \/ \E u \in Callers, fmp \in FmpAnswers, yahoo \in YahooAnswers :
       get_portfolio(u, fmp, yahoo)

SpecSweep == InitSweep /\ [][NextSweep]_vars

\* The same under the scheduling the process gives the refresher: the thread
\* that runs on_startup, and afterwards the event loop and its worker
\* thread, run the sweep whenever it can take a step.
SweepFairness ==
  /\ WF_vars(\E listed \in BOOLEAN : refresh_all_prices_begin(listed))
  /\ WF_vars(\E fmp \in FmpEvents, yahoo \in YahooEvents, stored \in BOOLEAN :
               refresh_all_prices_symbol(fmp, yahoo, stored))

SpecSweepFair == SpecSweep /\ SweepFairness

\* The ledger of two users under the portfolio view: acquisitions of 10
\* shares (or of none) of one symbol at 150, sales of 4 shares at 170 or at
\* the cached price, deletions, a provider that answers 160 or times out.
\* The database holds 5 shares of user u2, bought at 151, when the process
\* starts, and the warm pass of on_startup obtained no price.
InitView ==
  /\ holdings_col = {[id |-> 1, symbol |-> "AAPL", user_id |-> "u2",
                      qty |-> 5, price |-> Float(151)]}
  /\ next_id = 2
  /\ realized_col = <<>>
  /\ prices_col = {}
  /\ now = 0
  /\ reqs = <<>>
  /\ refresher = Idle
  /\ io = NoIO

ViewQtys == {0, 10}

ViewFmp == {FmpEvent("timeout", 0), FmpEvent("price", 160)}

ViewYahoo == {YahooEvent(YNone, YNone, YNone, YNone)}

NextView ==
  \/ /\ Len(reqs) < MaxViewReq
     /\ \E u \in Users, q \in ViewQtys : add_holding(u, "AAPL", q, 150)
  \/ /\ Len(reqs) < MaxViewReq
     /\ \E u \in Users, p \in {{}, {170}} : sell_holding(u, "AAPL", 4, p)
  \/ /\ Len(reqs) < MaxViewReq
     /\ \E u \in Users : delete_holding(u, "AAPL")
  \/ \E i \in 1..Len(reqs), fmp \in ViewFmp, yahoo \in ViewYahoo :
       insert_or_update_warm(i, fmp, yahoo, TRUE)
  \/ \E i \in 1..Len(reqs) : insert_or_update_find(i)
  \/ \E i \in 1..Len(reqs) : insert_or_update_write(i)
  \/ \E i \in 1..Len(reqs) : perform_delete(i)
  \/ \E i \in 1..Len(reqs) : process_sale_find(i)
  \/ \E i \in 1..Len(reqs), fmp \in ViewFmp, yahoo \in ViewYahoo :
       process_sale_price(i, fmp, yahoo)
  \/ \E i \in 1..Len(reqs) : process_sale_record(i)
  \/ \E i \in 1..Len(reqs) : process_sale_settle(i)
  \/ \E u \in Users, fmp \in ViewFmp, yahoo \in ViewYahoo :
       get_portfolio(u, fmp, yahoo)

SpecView == InitView /\ [][NextView]_vars

\* Acquisitions under a warm-up that may fail: the providers may have no
\* price, and the write of a fetched price to the cache may raise.
NextWarm ==
  \/ Tick
  \/ /\ Len(reqs) < MaxCacheReq
     /\ \E u \in Owners, s \in RawSymbols, q \in 1..MaxQty, p \in BuyPrices :
          add_holding(u, s, q, p)
  \/ \E i \in 1..Len(reqs), fmp \in FmpAnswers, yahoo \in YahooEvents,
        stored \in BOOLEAN :
       insert_or_update_warm(i, fmp, yahoo, stored)
  \/ \E i \in 1..Len(reqs) : insert_or_update_find(i)
  \/ \E i \in 1..Len(reqs) : insert_or_update_write(i)

SpecWarm == Init /\ [][NextWarm]_vars

\* Every operation over a database that has a realized gain: user u1 sold 4
\* of 10 shares bought at 150 for 170 before the process started, and holds
\* the other 6.
InitRecords ==
  /\ holdings_col = {[id |-> 1, symbol |-> "AAPL", user_id |-> "u1",
                      qty |-> 6, price |-> Float(150)]}
  /\ next_id = 2
  /\ realized_col = <<[symbol |-> "AAPL", qty |-> 4, buy_price |-> Float(150),
                       sell_price |-> Float(170), profit |-> Float(80),
                       user_id |-> "u1"]>>
  /\ prices_col = {}
  /\ now = 0
  /\ reqs = <<>>
  /\ refresher = Idle
  /\ io = NoIO

NextRecords ==
  \/ Tick
  \/ /\ Len(reqs) < MaxCacheReq
     /\ \E u \in Owners : add_holding(u, "AAPL", 10, 150)
  \/ /\ Len(reqs) < MaxCacheReq
     /\ \E u \in Owners, q \in {4, 6}, p \in {{}, {170}} :
          sell_holding(u, "AAPL", q, p)
  \/ /\ Len(reqs) < MaxCacheReq
     /\ \E u \in Owners : delete_holding(u, "AAPL")
  \/ \E i \in 1..Len(reqs), fmp \in ViewFmp, yahoo \in ViewYahoo :
       insert_or_update_warm(i, fmp, yahoo, TRUE)
  \/ \E i \in 1..Len(reqs) : insert_or_update_find(i)
  \/ \E i \in 1..Len(reqs) : insert_or_update_write(i)
  \/ \E i \in 1..Len(reqs) : perform_delete(i)
  \/ \E i \in 1..Len(reqs) : process_sale_find(i)
  \/ \E i \in 1..Len(reqs), fmp \in ViewFmp, yahoo \in ViewYahoo :
       process_sale_price(i, fmp, yahoo)
  \/ \E i \in 1..Len(reqs) : process_sale_record(i)
  \/ \E i \in 1..Len(reqs) : process_sale_settle(i)
  \/ \E u \in Owners, fmp \in ViewFmp, yahoo \in ViewYahoo :
       get_portfolio(u, fmp, yahoo)
  \/ \E listed \in BOOLEAN : refresh_all_prices_begin(listed)
  \/ \E fmp \in ViewFmp, yahoo \in ViewYahoo, stored \in BOOLEAN :
       refresh_all_prices_symbol(fmp, yahoo, stored)

SpecRecords == InitRecords /\ [][NextRecords]_vars

\* The refresher over a database in which two users hold the same symbol and
\* one of them a second symbol, under the same scheduling; the listing and
\* the store answer or raise, the providers have a price or none.
InitShared ==
  /\ holdings_col = {[id |-> 1, symbol |-> "AAPL", user_id |-> "u1",
                      qty |-> 1, price |-> Float(100)],
                     [id |-> 2, symbol |-> "AAPL", user_id |-> "u2",
                      qty |-> 1, price |-> Float(100)],
                     [id |-> 3, symbol |-> "TSLA", user_id |-> "u1",
                      qty |-> 1, price |-> Float(100)]}
  /\ next_id = 4
  /\ realized_col = <<>>
  /\ prices_col = {}
  /\ now = 0
  /\ reqs = <<>>
  /\ refresher = Starting
  /\ io = NoIO

NextShared ==
  \/ Tick
  \/ TickShort
  \/ \E listed \in BOOLEAN : refresh_all_prices_begin(listed)
  \/ \E fmp \in FmpAnswers, yahoo \in YahooAnswers, stored \in BOOLEAN :
       refresh_all_prices_symbol(fmp, yahoo, stored)
  \/ \E u \in Users, fmp \in FmpAnswers, yahoo \in YahooAnswers :
       get_portfolio(u, fmp, yahoo)

SharedFairness ==
  /\ WF_vars(\E listed \in BOOLEAN : refresh_all_prices_begin(listed))
  /\ WF_vars(\E fmp \in FmpAnswers, yahoo \in YahooAnswers, stored \in BOOLEAN :
               refresh_all_prices_symbol(fmp, yahoo, stored))

SpecShared == InitShared /\ [][NextShared]_vars /\ SharedFairness

\* ------------------------------------------------------------------ claims

Requests == 1..Len(reqs)

\* The requests made for the holding (user_id, symbol)
On(user_id, symbol) ==
  {i \in Requests : reqs[i].user_id = user_id /\ reqs[i].symbol = symbol}

Done(i) == reqs[i].pc = "done"

RECURSIVE SumQty(_)
SumQty(I) ==
  IF I = {} THEN 0
  ELSE LET i == The(I) IN reqs[i].qty + SumQty(I \ {i})

\* the sum of qty * price over the add requests I
RECURSIVE SumCost(_)
SumCost(I) ==
  IF I = {} THEN 0
  ELSE LET i == The(I) IN reqs[i].qty * The(reqs[i].price) + SumCost(I \ {i})

\* Every request made for the holding is a finished acquisition of a
\* positive quantity.
OnlyAcquisitions(I) ==
  /\ I # {}
  /\ \A i \in I : reqs[i].kind = "add" /\ reqs[i].qty > 0 /\ Done(i)

\* The holding as the task of request i finds it stored right now.
Stored(i) == find_holding(holdings_col, reqs[i].symbol, reqs[i].user_id)
StoredNext(i) == find_holding(holdings_col', reqs[i].symbol, reqs[i].user_id)

\* C1: acquisitions made while the holding exists lose no update: when one
\* acquisition created the holding and all the others were accepted with the
\* holding in place, then, once all have run (in whatever interleaving), the
\* quantity is the sum of all acquired quantities.
C1_NoLostUpdate ==
  \A u \in Owners, s \in Symbols :
    LET I == On(u, s)
    IN  (/\ OnlyAcquisitions(I)
         /\ Cardinality({i \in I : ~reqs[i].present}) = 1)
        => \E h \in find_holding(holdings_col, s, u) : h.qty = SumQty(I)

\* C2: three acquisitions of 1 share at 100, all accepted while the holding
\* does not exist, end with one holding of quantity 3 and average cost 100.
C2_ThreeConcurrentBuys ==
  \A u \in Owners, s \in Symbols :
    LET I == On(u, s)
    IN  (/\ Cardinality(I) = 3
         /\ \A i \in I : /\ reqs[i].kind = "add" /\ Done(i)
                         /\ reqs[i].qty = 1 /\ reqs[i].price = {100}
                         /\ ~reqs[i].present)
        => /\ Cardinality(find_holding(holdings_col, s, u)) = 1
           /\ \A h \in find_holding(holdings_col, s, u) :
                h.qty = 3 /\ h.price = Float(100)

\* C3: after acquisitions of positive quantities made one after another on a
\* fresh holding, the quantity is the sum of the acquired quantities and
\* quantity * average cost is the sum of quantity_i * price_i.
C3_WeightedAverage ==
  \A u \in Owners, s \in Symbols :
    LET I == On(u, s)
    IN  (OnlyAcquisitions(I) /\ \A i \in I : ~reqs[i].overlaps)
        => /\ Cardinality(find_holding(holdings_col, s, u)) = 1
           /\ \A h \in find_holding(holdings_col, s, u) :
                /\ h.qty = SumQty(I)
                /\ RMul(h.price, Float(h.qty)) = Float(SumCost(I))

\* Three acquisitions in a row whose weighted mean is no whole number.
C3_Witness ==
  /\ Len(reqs) = 3
  /\ OnlyAcquisitions(Requests)
  /\ \A i \in Requests : ~reqs[i].overlaps
  /\ \E h \in holdings_col : h.qty = 3 /\ h.price.d = 3

\* C4: every stored holding has a quantity above 0.
C4_QuantityPositive == \A h \in holdings_col : h.qty > 0

\* C5: a sale whose quantity is <= 0 or above the quantity of the holding it
\* finds ends as invalid_quantity in that very step, and the step changes
\* neither the holdings nor the realized sales; a finished request does
\* nothing more.
C5_InvalidQuantityRejected ==
  [][\A i \in Requests :
       /\ (/\ reqs[i].kind = "sell" /\ reqs[i].pc = "find"
           /\ reqs'[i].pc # "find"
           /\ Stored(i) # {}
           /\ (reqs[i].qty <= 0 \/ reqs[i].qty > The(Stored(i)).qty))
          => /\ reqs'[i].pc = "done"
             /\ reqs'[i].result = "invalid_quantity"
             /\ holdings_col' = holdings_col
             /\ realized_col' = realized_col
       /\ (Done(i) /\ reqs[i].result = "invalid_quantity")
          => reqs'[i] = reqs[i]]_vars

\* A sale of more than is held, and one of nothing, both turned down with
\* the holding there.
C5_Witness ==
  /\ holdings_col # {}
  /\ realized_col = <<>>
  /\ \E i, j \in Requests :
       /\ reqs[i].kind = "sell" /\ reqs[i].result = "invalid_quantity"
       /\ reqs[i].qty > 0
       /\ reqs[j].kind = "sell" /\ reqs[j].result = "invalid_quantity"
       /\ reqs[j].qty <= 0

Rejected == {"not_found", "invalid_quantity"}
Applied == {"sold", "deleted"}

\* C7: the response to a sale or a removal that was rejected differs from
\* the response to one of the same kind that was applied (the acquisitions
\* being of positive quantities).
C7_RejectionsSurface ==
  \A i, j \in Requests :
    (/\ \A k \in Requests : reqs[k].kind = "add" => reqs[k].qty > 0
     /\ reqs[i].kind \in {"sell", "delete"}
     /\ reqs[j].kind = reqs[i].kind
     /\ reqs[i].result \in Rejected
     /\ reqs[j].result \in Applied)
    => reqs[i].response # reqs[j].response

\* The last step of the sale i.
Settles(i) ==
  /\ reqs[i].kind = "sell" /\ reqs[i].pc = "settle"
  /\ reqs'[i].pc = "done"

\* The last step of the sale i, taken while the holding is stored as the
\* sale read it (no other task has changed it in between).
SettlesUndisturbed(i) == Settles(i) /\ Stored(i) = reqs[i].h

\* C8: a sale of the whole quantity it read deletes the document it read;
\* when the holding is stored as the sale read it, so that the sale is of the
\* whole current quantity, no holding is left for that owner and symbol.
C8_FullSaleDeletes ==
  [][\A i \in Requests :
       /\ (Settles(i) /\ reqs[i].qty = The(reqs[i].h).qty)
          => /\ \A h \in holdings_col' : h.id # The(reqs[i].h).id
             /\ reqs'[i].result = "sold"
       /\ (SettlesUndisturbed(i) /\ reqs[i].qty = The(Stored(i)).qty)
          => StoredNext(i) = {}]_vars

\* 2 shares acquired, then 2 sold: nothing is held.
C8_Witness ==
  /\ Len(reqs) = 2
  /\ reqs[1].kind = "add" /\ reqs[1].qty = 2 /\ reqs[1].result = "saved"
  /\ reqs[2].kind = "sell" /\ reqs[2].qty = 2 /\ reqs[2].result = "sold"
  /\ ~reqs[2].overlaps
  /\ holdings_col = {}

\* C9: the last step of a sale creates no document and changes no
\* document's symbol, owner or average cost; a sale of 0 < q < quantity, the
\* holding being stored as the sale read it, leaves the same document with
\* quantity - q and every other document as it was.
C9_PartialSaleKeepsCost ==
  [][\A i \in Requests :
       /\ Settles(i)
          => \A h2 \in holdings_col' : \E h1 \in holdings_col :
               h2 = [h1 EXCEPT !.qty = h2.qty]
       /\ (/\ SettlesUndisturbed(i)
           /\ 0 < reqs[i].qty /\ reqs[i].qty < The(Stored(i)).qty)
          => /\ StoredNext(i) =
                  {[The(Stored(i)) EXCEPT !.qty = The(Stored(i)).qty - reqs[i].qty]}
             /\ holdings_col' \ StoredNext(i) = holdings_col \ Stored(i)
             /\ reqs'[i].result = "sold"]_vars

\* 1 share at 100 and 1 at 120 acquired, then 1 sold: 1 is held at 110.
C9_Witness ==
  /\ Len(reqs) = 3
  /\ reqs[3].kind = "sell" /\ reqs[3].qty = 1 /\ reqs[3].result = "sold"
  /\ ~reqs[3].overlaps
  /\ \E h \in holdings_col : h.qty = 1 /\ h.price = Float(110)

\* The sales that have inserted their realized-gains document.
Recorded ==
  {i \in Requests : /\ reqs[i].kind = "sell"
                    /\ reqs[i].pc = "settle" \/ reqs[i].result = "sold"}

\* C10: every sale that passed the checks inserts exactly one realized-gains
\* document, for its owner and symbol, with the quantity asked for, the
\* average cost the sale read from the holding (the stored one, when nothing
\* changed it since) as buy_price, and profit = (sell_price - buy_price) * qty;
\* 5 shares bought at 100 and sold at 120 give 100.
C10_SaleRecorded ==
  /\ [](/\ Len(realized_col) = Cardinality(Recorded)
        /\ \A k \in 1..Len(realized_col) :
             realized_col[k].profit =
               RMul(RSub(realized_col[k].sell_price, realized_col[k].buy_price),
                    Float(realized_col[k].qty))
        /\ Profit(Float(120), Float(100), 5) = Float(100))
  /\ [][\A i \in Requests :
          (reqs[i].kind = "sell" /\ reqs[i].pc = "record" /\ reqs'[i].pc # "record")
          => /\ Len(realized_col') = Len(realized_col) + 1
             /\ SubSeq(realized_col', 1, Len(realized_col)) = realized_col
             /\ LET x == realized_col'[Len(realized_col')]
                IN  /\ x.user_id = reqs[i].user_id
                    /\ x.symbol = reqs[i].symbol
                    /\ x.qty = reqs[i].qty
                    /\ x.buy_price = The(reqs[i].h).price
                    /\ Stored(i) = reqs[i].h => x.buy_price = The(Stored(i)).price
                    /\ reqs[i].price # {} => x.sell_price = Float(The(reqs[i].price))
                    /\ x.profit = RMul(RSub(x.sell_price, x.buy_price),
                                       Float(reqs[i].qty))]_vars

\* 2 shares acquired at 100 and sold at 120: one document, profit 40.
C10_Witness ==
  /\ Len(reqs) = 2
  /\ reqs[2].kind = "sell" /\ reqs[2].result = "sold"
  /\ Len(realized_col) = 1
  /\ realized_col[1].qty = 2
  /\ realized_col[1].buy_price = Float(100)
  /\ realized_col[1].sell_price = Float(120)
  /\ realized_col[1].profit = Float(40)

\* --------------------------------------------------- claims: the price cache

\* the price lookups of the latest step that went through get_cached_price
CacheLookups == {c \in io.cache : c.fn = "get_cached_price"}

\* c read an entry that was max_age_sec old or older
ReadStale(c) == \E d \in c.doc : now - d.timestamp >= c.max_age_sec

\* c read an entry younger than max_age_sec
ReadFresh(c) == \E d \in c.doc : now - d.timestamp < c.max_age_sec

\* the quote functions c called all returned None
AllFailed(c) == \A k \in 1..Len(c.quotes) : c.quotes[k].ret = {}

\* what the last quote function c called returned
LastQuote(c) == c.quotes[Len(c.quotes)].ret

\* C11: in a sale the sell price is the explicit price when one is given
\* (and the quantity is valid), else what get_cached_price(symbol, 300, True)
\* returns when it returns a price, else the holding's own price; a sale
\* that reached its price lookup always goes on to record the sale.
C11_SalePrice ==
  [][\A i \in Requests :
       /\ (reqs[i].kind = "sell" /\ reqs[i].pc = "find" /\ reqs'[i] # reqs[i]
             /\ reqs'[i].result \notin Rejected)
            => IF reqs[i].price # {}
                 THEN /\ reqs'[i].pc = "record"
                      /\ reqs'[i].sell_price = {Float(The(reqs[i].price))}
                 ELSE reqs'[i].pc = "price"
       /\ (reqs[i].kind = "sell" /\ reqs[i].pc = "price" /\ reqs'[i] # reqs[i])
            => /\ reqs'[i].pc = "record"
               /\ \E c \in io'.cache :
                    /\ c.fn = "get_cached_price" /\ c.symbol = reqs[i].symbol
                    /\ c.max_age_sec = SHORT_AGE /\ c.allow_fetch
                    /\ reqs'[i].sell_price =
                         IF c.ret # {} THEN c.ret ELSE {The(reqs[i].h).price}
    ]_vars

\* The price lookup of a sale with a returned 0.0 counted as no price: the
\* sell price is the value returned when it is neither None nor 0.0, else
\* the holding's own price.
SalePriceUnlessZero ==
  [][\A i \in Requests :
       (reqs[i].kind = "sell" /\ reqs[i].pc = "price" /\ reqs'[i] # reqs[i])
         => /\ reqs'[i].pc = "record"
            /\ \E c \in io'.cache :
                 /\ c.fn = "get_cached_price" /\ c.symbol = reqs[i].symbol
                 /\ c.max_age_sec = SHORT_AGE /\ c.allow_fetch
                 /\ reqs'[i].sell_price =
                      IF c.ret # {} /\ c.ret # {Zero}
                        THEN c.ret ELSE {The(reqs[i].h).price}
    ]_vars

\* C12: a lookup with allow_fetch=False that read an entry max_age_sec old
\* or older returns None.
C12_StaleReadIsNone ==
  \A c \in CacheLookups : (~c.allow_fetch /\ ReadStale(c)) => c.ret = {}

\* C13: a step whose lookups all have allow_fetch=False calls no quote
\* function and leaves the prices collection as it was, whether the entry
\* read is fresh, stale or missing.
C13_NoFetchNoWrite ==
  [][(io'.cache # {} /\ \A c \in io'.cache : ~c.allow_fetch)
       => /\ \A c \in io'.cache : c.quotes = <<>>
          /\ prices_col' = prices_col]_vars

\* a lookup with allow_fetch=False read a stale entry and called nobody
C13_Witness ==
  \E c \in CacheLookups : ~c.allow_fetch /\ ReadStale(c) /\ c.quotes = <<>>

\* C14: a lookup with allow_fetch=True that reads a fresh entry returns its
\* price and calls no quote function; one that reads a stale entry or none
\* and whose fetch succeeds returns the fetched price and leaves the entry
\* (symbol, fetched price, now), and a lookup that follows at once with the
\* same max_age_sec and no fetch returns that price.
C14_FreshHitOrFetchAndStore ==
  \A c \in CacheLookups :
    c.allow_fetch =>
      /\ ReadFresh(c) => (c.quotes = <<>> /\ c.ret = {d.price : d \in c.doc})
      /\ ~ReadFresh(c) => c.quotes # <<>>
      /\ (~ReadFresh(c) /\ ~AllFailed(c)) =>
           /\ c.ret = LastQuote(c)
           /\ _read_price(prices_col, c.symbol) =
                {[symbol |-> c.symbol, price |-> The(LastQuote(c)), timestamp |-> now]}
           /\ \A fmp \in FmpAnswers, yahoo \in YahooAnswers :
                get_cached_price(prices_col, now, c.symbol, c.max_age_sec,
                                 FALSE, fmp, yahoo, TRUE).ret = LastQuote(c)

\* a lookup read a stale entry, fetched a price and returned it
C14_Witness ==
  \E c \in CacheLookups :
    c.allow_fetch /\ ReadStale(c) /\ ~AllFailed(c) /\ c.ret = LastQuote(c)

\* C15: a lookup with allow_fetch=True that reads a stale entry or none and
\* whose fetch fails returns the stored price if there is an entry, however
\* old, and None if there is none, and the entry stays as it was read.
C15_StaleFallback ==
  \A c \in CacheLookups :
    (c.allow_fetch /\ ~ReadFresh(c) /\ AllFailed(c)) =>
      /\ c.ret = {d.price : d \in c.doc}
      /\ _read_price(prices_col, c.symbol) = c.doc

\* a lookup read a stale entry, both providers failed, the old price came back
C15_Witness ==
  \E c \in CacheLookups :
    /\ c.allow_fetch /\ ReadStale(c) /\ Len(c.quotes) = 2 /\ AllFailed(c)
    /\ c.ret = {d.price : d \in c.doc}

\* C16: a fetch calls _fmp_quote first; when that returns a price the fetch
\* returns it and _yahoo_quote is not called; _yahoo_quote is called only
\* after _fmp_quote returned None, and the fetch returns None only after
\* both did.
C16_PrimaryThenAlternate ==
  \A c \in io.cache :
    c.quotes # <<>> =>
      /\ c.quotes[1].fn = "_fmp_quote"
      /\ c.quotes[1].ret # {} => (Len(c.quotes) = 1 /\ c.fetched = c.quotes[1].ret)
      /\ c.quotes[1].ret = {} =>
           /\ Len(c.quotes) = 2
           /\ c.quotes[2].fn = "_yahoo_quote"
           /\ c.fetched = c.quotes[2].ret
      /\ c.fetched = {} => (Len(c.quotes) = 2 /\ AllFailed(c))

\* a fetch got nothing from FMP and a price from Yahoo
C16_Witness ==
  \E c \in io.cache :
    /\ Len(c.quotes) = 2 /\ c.quotes[1].ret = {}
    /\ c.quotes[2].fn = "_yahoo_quote" /\ c.quotes[2].ret # {}
    /\ c.fetched = c.quotes[2].ret

\* C17: no quote function and no fetch lets an exception escape, and every
\* failure of a provider (a 403, a 429, a body that is no JSON, a network
\* error, a timeout, an exception in yfinance) comes back as None.
C17_FetchNeverRaises ==
  /\ \A c \in io.cache :
       ~c.raised /\ \A k \in 1..Len(c.quotes) : ~c.quotes[k].raised
  /\ \A fmp \in FmpEvents :
       fmp.event \in FmpFailures => _fmp_quote(fmp) = [ret |-> {}, raised |-> FALSE]
  /\ \A yahoo \in YahooEvents :
       ((yahoo.fast.exc \/ yahoo.fast.val = {}) /\ yahoo.info.exc)
         => _yahoo_quote(yahoo) = [ret |-> {}, raised |-> FALSE]
  /\ \A fmp \in FmpEvents, yahoo \in YahooEvents :
       LET live == fetch_live_price(fmp, yahoo)
       IN  /\ ~live.raised
           /\ (fmp.event \in FmpFailures /\ yahoo = YahooEvent(YNone, YNone, YNone, YRaise))
                => live.ret = {}

\* a fetch in which both providers failed ended with None and no exception
C17_Witness ==
  \E c \in io.cache :
    /\ c.allow_fetch /\ Len(c.quotes) = 2 /\ AllFailed(c)
    /\ ~c.raised /\ c.fetched = {}

\* C18: every entry of the prices collection has a price above 0, and no
\* two entries have the same upper-case symbol.
C18_CachedPricePositive ==
  \A d \in prices_col :
    /\ RLess(Zero, d.price)
    /\ d.symbol = Upper(d.symbol)
    /\ \A e \in prices_col : e.symbol = d.symbol => e = d

\* -------------------------------------------------------- claims: the sweep

\* a turn of the for loop of refresh_all_prices
SweepTurn == refresher.pc = "sweeping" /\ refresher' # refresher

\* C19: a turn of the sweep for one symbol, whether its price comes or not
\* and whether it can be stored or not, leaves every later symbol of the
\* sweep to do and the entries of the other symbols as they were.
C19_SweepGoesOn ==
  [][SweepTurn =>
       /\ Len(refresher.todo) > 1 =>
            /\ refresher'.pc = "sweeping"
            /\ refresher'.todo = Tail(refresher.todo)
       /\ \A d \in prices_col : d.symbol # Head(refresher.todo) => d \in prices_col'
    ]_vars

\* C20: a turn of the sweep for a symbol whose entry is younger than
\* LONG_AGE calls no quote function.
C20_FreshNotFetched ==
  [][(SweepTurn /\ \E d \in prices_col :
                     d.symbol = Head(refresher.todo) /\ now - d.timestamp < LONG_AGE)
       => \A c \in io'.cache : c.quotes = <<>>]_vars

\* C20, as the code has it: every turn of the sweep calls fetch_live_price
\* for its symbol, whatever the age of the symbol's entry.
C20_SweepFetchesEverySymbol ==
  [][SweepTurn =>
       \E c \in io'.cache :
         /\ c.fn = "fetch_live_price" /\ c.symbol = Head(refresher.todo)
         /\ c.quotes # <<>> /\ c.quotes[1].fn = "_fmp_quote"]_vars

\* the sweep called both providers for a symbol whose entry is fresh (they
\* failed, so the entry is the one the turn found)
C20_Witness ==
  \E c \in io.cache :
    /\ c.fn = "fetch_live_price" /\ Len(c.quotes) = 2 /\ AllFailed(c)
    /\ \E d \in prices_col : d.symbol = c.symbol /\ now - d.timestamp < LONG_AGE

\* C21: the background task alternates sweeping and sleeping and never ends.
\* Every step of the task, once on_startup has created it, leaves it
\* sweeping or sleeping, whatever the sweep met (the listing raising, a
\* store raising); a sleep lasts SWEEP_PERIOD; a sweep under way reaches the
\* sleep; and a sleep that is over is followed by the next sweep (which
\* lists the symbols and either goes through them or, with nothing listed,
\* is over at once and sleeps again).
BackgroundTurn == refresher.phase = "background" /\ refresher' # refresher

SleepOver == refresher.pc = "sleeping" /\ now >= refresher.wake

C21_SweepAndSleepForever ==
  /\ [][BackgroundTurn =>
          /\ refresher'.pc \in {"sweeping", "sleeping"}
          /\ refresher'.phase = "background"
          /\ refresher'.pc = "sleeping" => refresher'.wake = now + SWEEP_PERIOD]_vars
  /\ (refresher.pc = "sweeping" /\ refresher.phase = "background")
       ~> (refresher.pc = "sleeping")
  /\ SleepOver ~> (refresher.pc = "sweeping" \/ ~SleepOver)

\* a sweep begun after a sleep was ended by a store that raised, and the
\* task sleeps again
C21_Witness ==
  /\ refresher.pc = "sleeping" /\ now >= SWEEP_PERIOD
  /\ refresher.wake = now + SWEEP_PERIOD
  /\ \E c \in io.cache :
       /\ c.fn = "fetch_live_price" /\ c.ret # {}
       /\ \A d \in prices_col : d.symbol = c.symbol => d.timestamp < now

\* C22: a warm pass that fails completely does not keep startup from
\* completing.  Every step of on_startup's warm pass goes on with the pass
\* or leaves on_startup at the creation of the background task; startup is
\* always left, the created task always begins its first sweep; and a
\* portfolio served shows a symbol the cache has no entry for with null
\* price, value and profit.
C22_StartupSurvivesWarmPass ==
  /\ [][refresher.phase = "startup" /\ refresher' # refresher =>
          \/ refresher'.pc = "sweeping" /\ refresher'.phase = "startup"
          \/ refresher' = Idle]_vars
  /\ ~Serving ~> Serving
  /\ (refresher = Idle) ~> (refresher.pc \in {"sweeping", "sleeping"})
  /\ [](\A r \in io.portfolio : \A row \in r.holdings :
          _read_price(prices_col, row.symbol) = {} =>
            /\ row.current_price = {} /\ row.value = {}
            /\ row.unrealized_profit = {}
            /\ row.warning = {"price_unavailable"})

\* the warm pass stored nothing, startup is over and a portfolio is served
\* with every price null
C22_Witness ==
  /\ prices_col = {} /\ refresher.phase = "background" /\ Serving
  /\ \E r \in io.portfolio :
       /\ r.status = 200 /\ r.holdings # {}
       /\ \A row \in r.holdings : row.current_price = {}

\* The holdings a portfolio of user_id has a row for
Held(user_id) == {h \in holdings_col : h.user_id = user_id /\ 0 < h.qty}

\* The portfolios served by the step that led to this state
Portfolios == {r \in io.portfolio : r.status = 200}

\* C23: a portfolio has exactly one row for every holding of its user with
\* a quantity above 0, carrying the holding's quantity and average price,
\* and no other row; the row of a symbol the cache has no entry for has
\* current_price, value and unrealized_profit null and the marker
\* price_unavailable.
C23_OneRowPerHolding ==
  \A r \in Portfolios :
    /\ Cardinality(r.holdings) = Cardinality(Held(r.user_id))
    /\ \A h \in Held(r.user_id) : \E row \in r.holdings :
         /\ row.symbol = h.symbol /\ row.qty = Float(h.qty)
         /\ row.avg_price = h.price
         /\ _read_price(prices_col, h.symbol) = {} =>
              /\ row.current_price = {} /\ row.value = {}
              /\ row.unrealized_profit = {}
              /\ row.warning = {"price_unavailable"}

\* a portfolio whose only row has no price, served while another user has a
\* holding too
C23_Witness ==
  \E r \in Portfolios :
    /\ \E row \in r.holdings : row.warning = {"price_unavailable"}
    /\ \E h \in holdings_col : h.user_id # r.user_id

\* C24: get_portfolio calls no quote function and changes nothing stored: a
\* step that answers a portfolio request leaves holdings, realized gains
\* and price cache as they were, and none of its lookups fetched.
C24_ViewChangesNothing ==
  [][io'.portfolio # {} =>
       /\ UNCHANGED <<holdings_col, next_id, realized_col, prices_col, reqs>>
       /\ \A c \in io'.cache : c.quotes = <<>> /\ c.fetched = {}]_vars

\* a portfolio served with a row for a symbol that has no cache entry
C24_Witness ==
  \E r \in Portfolios :
    /\ r.holdings # {}
    /\ \E c \in io.cache : c.doc = {} /\ c.ret = {} /\ ~c.allow_fetch

\* the sum of (sell_price - buy_price) * qty over the documents of sales
\* that belong to user_id
RECURSIVE SumGains(_, _)
SumGains(sales, user_id) ==
  IF sales = <<>> THEN Zero
  ELSE LET x == Head(sales)
           rest == SumGains(Tail(sales), user_id)
       IN  IF x.user_id = user_id
             THEN RAdd(RMul(RSub(x.sell_price, x.buy_price), Float(x.qty)), rest)
             ELSE rest

\* C25: the realized_profit of a portfolio is the sum, over the realized
\* gains of its user, of (sale price - average cost the sale read) x
\* quantity sold, and 0 when the user has none.
C25_RealizedProfit ==
  \A r \in Portfolios :
    /\ r.realized_profit = SumGains(realized_col, r.user_id)
    /\ (\A i \in 1..Len(realized_col) : realized_col[i].user_id # r.user_id)
         => r.realized_profit = Zero

\* a portfolio of a user with a sale, served while the other user has a
\* sale with a profit
C25_Witness ==
  \E r \in Portfolios :
    /\ \E i, j \in 1..Len(realized_col) :
         /\ realized_col[i].user_id = r.user_id
         /\ realized_col[j].user_id # r.user_id
         /\ realized_col[j].profit # Zero
    /\ r.realized_profit # Zero

\* The rows of the portfolios served that show a price
PricedRows == {row \in UNION {r.holdings : r \in Portfolios} : row.current_price # {}}

\* The price the cache holds for the symbol of a priced row
CachedPrice(row) == The(LastKnown(_read_price(prices_col, row.symbol)))

\* C26 as stated: the value of a priced row is current_price x quantity and
\* its unrealized_profit is (current_price - average cost) x quantity,
\* exactly.
C26_ExactValue ==
  \A row \in PricedRows :
    /\ row.value = {RMul(The(row.current_price), row.qty)}
    /\ row.unrealized_profit =
         {RMul(RSub(The(row.current_price), row.avg_price), row.qty)}

\* The sale of 4 shares at 170 out of a holding of 10 at 150, at request i
TenAt150Sells4At170(i) ==
  /\ reqs[i].kind = "sell" /\ reqs[i].qty = 4
  /\ reqs[i].sell_price = {Float(170)}
  /\ \E h \in reqs[i].h : h.qty = 10 /\ h.price = Float(150)

\* C26: the current_price, value and unrealized_profit of a priced row are
\* the cached price, cached price x quantity and (cached price - average
\* cost) x quantity, each rounded to two decimals.  A holding of 10 at 150
\* with 160 cached shows value 1600 and unrealized_profit 100; selling 4 of
\* it at 170 records a profit of 80 and leaves 6 at 150.
C26_RoundedValue ==
  /\ [](\A row \in PricedRows :
          /\ row.current_price = {Round2(CachedPrice(row))}
          /\ row.value = {Round2(RMul(CachedPrice(row), row.qty))}
          /\ row.unrealized_profit =
               {Round2(RMul(RSub(CachedPrice(row), row.avg_price), row.qty))}
          /\ (/\ row.qty = Float(10) /\ row.avg_price = Float(150)
              /\ CachedPrice(row) = Float(160))
               => /\ row.value = {Float(1600)}
                  /\ row.unrealized_profit = {Float(100)})
  /\ [][\A i \in Requests :
          /\ (TenAt150Sells4At170(i) /\ reqs[i].pc = "record"
                 /\ reqs'[i].pc = "settle")
               => realized_col'[Len(realized_col')].profit = Float(80)
          /\ (TenAt150Sells4At170(i) /\ reqs[i].pc = "settle"
                 /\ reqs'[i].pc = "done" /\ Stored(i) = reqs[i].h)
               => \E h \in StoredNext(i) : h.qty = 6 /\ h.price = Float(150)]_vars

\* the portfolio of the holding of 10 at 150 with 160 cached
C26_Witness ==
  \E row \in PricedRows :
    /\ row.qty = Float(10) /\ row.avg_price = Float(150)
    /\ row.current_price = {Float(160)}
    /\ row.value = {Float(1600)} /\ row.unrealized_profit = {Float(100)}

\* C27: POST /holding, the request "Save Changes" makes, sets the position:
\* the task that saves leaves the holding with exactly the quantity and the
\* price of the request, whether it found the holding or created it.
C27_SetPosition ==
  [][\A i \in Requests :
       (reqs[i].kind = "add" /\ reqs[i].pc = "write" /\ reqs'[i].result = "saved")
         => \E h \in StoredNext(i) :
              h.qty = reqs[i].qty /\ h.price = Float(The(reqs[i].price))]_vars

\* C28: the task of a DELETE /holding/{symbol} that finds the holding of its
\* user and symbol deletes that document and no other, and ends "deleted";
\* one that finds none ends "not found" and deletes nothing; in both cases
\* realized gains and price cache are as before.
C28_RemoveExactlyThat ==
  [][\A i \in Requests :
       (reqs[i].kind = "delete" /\ reqs[i].pc = "delete" /\ reqs'[i].pc = "done")
         => LET that == {h \in holdings_col : /\ h.symbol = reqs[i].symbol
                                              /\ h.user_id = reqs[i].user_id}
            IN  /\ Cardinality(that) <= 1
                /\ holdings_col' = holdings_col \ that
                /\ reqs'[i].result = IF that = {} THEN "not_found" ELSE "deleted"
                /\ UNCHANGED <<realized_col, prices_col, next_id>>]_vars

\* a holding was deleted while the other user's holding, a realized gain
\* and a cache entry stay
C28_Witness ==
  /\ \E i \in Requests : reqs[i].kind = "delete" /\ reqs[i].result = "deleted"
  /\ holdings_col # {} /\ realized_col # <<>> /\ prices_col # {}

\* C29: an acquisition whose warm-up fails is applied all the same.  Whatever
\* the lookup that warms the cache came to (no provider had a price, or the
\* write of the fetched price raised), the task goes on to find the holding
\* and to write it.
C29_WarmupFailureApplies ==
  [][\A i \in Requests :
       (reqs[i].kind = "add" /\ reqs[i].pc = "warm" /\ reqs'[i].pc # "warm")
         => reqs'[i].pc = "find" /\ reqs'[i].result = "pending"]_vars

\* C30: realized gains are append-only.  Every step of every operation
\* (acquisition, sale, deletion, portfolio view, sweep) leaves the documents
\* of realized_col as they were, in their order, and at most appends one;
\* so the gains of a holding outlive its deletion and its sale in full.
C30_AppendOnly ==
  [][/\ Len(realized_col') \in {Len(realized_col), Len(realized_col) + 1}
     /\ SubSeq(realized_col', 1, Len(realized_col)) = realized_col]_vars

\* The holding of the realized gain x is gone
Gone(x) == find_holding(holdings_col, x.symbol, x.user_id) = {}

\* a holding with realized gains was deleted, its gains are still there
C30_Witness ==
  /\ \E i \in Requests : reqs[i].kind = "delete" /\ reqs[i].result = "deleted"
  /\ \E k \in 1..Len(realized_col) : Gone(realized_col[k])

\* C31: an acquisition answered "success" is applied.  A portfolio served
\* after the answer has a row for the symbol of every acquisition of its
\* user (of a quantity above 0) whose holding no sale and no deletion was
\* asked for.
C31_SuccessMeansApplied ==
  \A r \in Portfolios : \A i \in Requests :
    (/\ reqs[i].kind = "add" /\ reqs[i].qty > 0
     /\ reqs[i].response.status = "success"
     /\ reqs[i].user_id = r.user_id
     /\ \A j \in On(reqs[i].user_id, reqs[i].symbol) : reqs[j].kind = "add")
      => \E row \in r.holdings : row.symbol = reqs[i].symbol

\* C32: a sale that was answered results in a realized gain.  Every sell
\* request whose task is over has a document of its user and symbol in
\* realized_col.
C32_AnsweredSaleRecorded ==
  \A i \in Requests :
    (reqs[i].kind = "sell" /\ reqs[i].response.status = "queued" /\ Done(i))
      => \E k \in 1..Len(realized_col) :
           /\ realized_col[k].user_id = reqs[i].user_id
           /\ realized_col[k].symbol = reqs[i].symbol

\* the quantity held of (user_id, symbol), 0 when there is no holding
RECURSIVE QtyHeld(_)
QtyHeld(H) == IF H = {} THEN 0 ELSE LET h == The(H) IN h.qty + QtyHeld(H \ {h})

\* the quantity sold of (user_id, symbol) by the documents of sales
RECURSIVE QtySold(_, _, _)
QtySold(sales, user_id, symbol) ==
  IF sales = <<>> THEN 0
  ELSE (IF Head(sales).user_id = user_id /\ Head(sales).symbol = symbol
          THEN Head(sales).qty ELSE 0)
       + QtySold(Tail(sales), user_id, symbol)

\* Acquisitions (of quantities above 0) and sales only were asked for the
\* holding, and all their tasks are over
Settled(I) ==
  /\ I # {}
  /\ \A i \in I : /\ Done(i) /\ reqs[i].kind \in {"add", "sell"}
                  /\ reqs[i].kind = "add" => reqs[i].qty > 0

\* C33: conservation.  Once the acquisitions and sales asked for a holding
\* are all over, the quantity held plus the quantity sold by its realized
\* gains is the quantity acquired.
C33_Conservation ==
  \A u \in Owners, s \in Symbols :
    Settled(On(u, s)) =>
      QtyHeld({h \in holdings_col : h.user_id = u /\ h.symbol = s})
        + QtySold(realized_col, u, s)
        = SumQty({i \in On(u, s) : reqs[i].kind = "add"})

\* C34: there is one refresher, created once by on_startup after its warm
\* pass, and one sweep at a time.  A sweep in progress is only carried on
\* (the next symbol of the same sweep) or ended (the startup pass ends in
\* the creation of the task, a background sweep in the sleep); a sweep is
\* entered only by on_startup at the start, by the new task, or after a
\* sleep that is over; the task is created only out of the startup phase and
\* nothing returns to the startup phase.
C34_OneSweepAtATime ==
  [][/\ (refresher.pc = "sweeping" /\ refresher' # refresher) =>
          \/ /\ refresher'.pc = "sweeping"
             /\ refresher'.phase = refresher.phase
             /\ refresher'.todo = Tail(refresher.todo)
          \/ refresher.phase = "startup" /\ refresher' = Idle
          \/ refresher.phase = "background" /\ refresher'.pc = "sleeping"
     /\ (refresher.pc # "sweeping" /\ refresher'.pc = "sweeping") =>
          /\ \/ refresher.pc \in {"starting", "idle"}
             \/ refresher.pc = "sleeping" /\ now >= refresher.wake
          /\ refresher'.phase = "startup" <=> refresher.pc = "starting"
     /\ (refresher' = Idle /\ refresher # Idle) => refresher.phase = "startup"
     /\ refresher.phase = "background" => refresher'.phase = "background"
     /\ refresher'.pc = "starting" => refresher.pc = "starting"]_vars

\* the background task is in the middle of a sweep that followed the warm
\* pass of on_startup: one symbol is done, one is still to do
C34_Witness ==
  /\ refresher.pc = "sweeping" /\ refresher.phase = "background"
  /\ Len(refresher.todo) = 1
  /\ \E d \in prices_col : d.symbol # Head(refresher.todo)

\* the holdings and the realized gains stored for user_id
HoldingsOf(col, user_id) == {h \in col : h.user_id = user_id}
SalesOf(sales, user_id) == SelectSeq(sales, LAMBDA x : x.user_id = user_id)

\* what a portfolio of user_id is made of: symbol, quantity and average cost
\* of the holdings with a quantity above 0, and the realized gains
ViewOf(col, sales, user_id) ==
  [rows |-> {[symbol |-> h.symbol, qty |-> Float(h.qty), avg_price |-> h.price] :
               h \in {x \in HoldingsOf(col, user_id) : x.qty > 0}},
   realized_profit |-> SumGains(sales, user_id)]

\* C35: owner isolation.  A step that creates, changes or deletes a holding
\* or a realized gain of a user, or changes what a portfolio of that user is
\* made of, is a step of a request made for that same user, and of that
\* request only; a portfolio served to a user shows the quantities, average
\* costs and realized profit stored for that user, whatever requests of
\* other users have done, the same symbol included.
C35_OwnerIsolation ==
  /\ [][\A u \in Users :
          (\/ HoldingsOf(holdings_col', u) # HoldingsOf(holdings_col, u)
           \/ SalesOf(realized_col', u) # SalesOf(realized_col, u)
           \/ ViewOf(holdings_col', realized_col', u)
                # ViewOf(holdings_col, realized_col, u))
            => /\ Len(reqs') = Len(reqs)
               /\ \E i \in Requests :
                    /\ reqs'[i] # reqs[i] /\ reqs[i].user_id = u
                    /\ \A j \in Requests \ {i} : reqs'[j] = reqs[j]]_vars
  /\ [](\A r \in Portfolios :
          /\ {[symbol |-> row.symbol, qty |-> row.qty, avg_price |-> row.avg_price] :
                row \in r.holdings}
               = ViewOf(holdings_col, realized_col, r.user_id).rows
          /\ r.realized_profit
               = ViewOf(holdings_col, realized_col, r.user_id).realized_profit)

\* u2 is served its portfolio, with its 5 shares at 151, after u1 has bought
\* the same symbol and sold some of it
C35_Witness ==
  /\ \E r \in Portfolios :
       /\ r.user_id = "u2" /\ r.realized_profit = Zero
       /\ \E row \in r.holdings : row.qty = Float(5) /\ row.avg_price = Float(151)
  /\ \E i \in Requests :
       reqs[i].user_id = "u1" /\ reqs[i].kind = "sell" /\ reqs[i].result = "sold"
  /\ \E h \in holdings_col : h.user_id = "u1" /\ h.symbol = "AAPL"

\* the symbols held, by whatever user
HeldSymbols == {h.symbol : h \in holdings_col}

\* the symbols a sweep has still to do
ToDo == {refresher.todo[k] : k \in 1..Len(refresher.todo)}

\* the calls of fetch_live_price of the step that led to this state
Fetches == {c \in io.cache : c.fn = "fetch_live_price"}

\* the price that call c fetched is the entry of its symbol, written now
JustStored(c) ==
  /\ c.fetched # {}
  /\ [symbol |-> c.symbol, price |-> The(c.fetched), timestamp |-> now] \in prices_col

====
